---------------------------- MODULE Spec2Model ----------------------------
(***************************************************************************)
(* A model of src/main.py: the query_data request handler, the aggregation *)
(* it asks of the record store (_aggregate_generic) and the budget         *)
(* heuristic (_suggest_reallocation).                                      *)
(*                                                                         *)
(* Numbers.  Python floats are held as exact fixed-point integers:         *)
(*   money   in mills (1/1000 of a currency unit), so that round(x, 2)     *)
(*           (to cents, 10 mills) is not the identity;                     *)
(*   ratios  (roas, ctr, cpc, conversion_rate, min_roas) in hundredths;    *)
(*   scores  in millionths, the size of the code's epsilon 1e-6.           *)
(* Intermediate money values (a proportional share, cur * 0.5) are exact   *)
(* rationals [w, n, d] = w + n/d with 0 <= n < d.  Binary rounding error   *)
(* of the floats is not modelled, except where it decides an outcome: a    *)
(* value exactly half way between two cents is rounded by round(x, 2) up   *)
(* or down depending on the float's representation error, so both are      *)
(* outcomes of the model.                                                  *)
(***************************************************************************)
EXTENDS Integers, Sequences, FiniteSets, TLC

VARIABLES
    db,                \* the documents of the record store, each tagged with its collection
    request,           \* the QueryPayload last handled by query_data
    response,          \* what query_data answered: [status, ...]
    channels_summary,  \* _suggest_reallocation's argument: the aggregated rows
    constraints,       \* _suggest_reallocation's argument: the constraints dict
    locals,            \* _suggest_reallocation's locals when it returned
    suggested,         \* _suggest_reallocation's return value
    pc                 \* where the program is

vars == <<db, request, response, channels_summary, constraints, locals, suggested, pc>>

-----------------------------------------------------------------------------
(* Encoding of values *)

\* Python None / BSON null. Outside the range of every number of the model.
None == -999999

\* dict.get(k): None when the key is missing
Get(d, k) == IF k \in DOMAIN d THEN d[k] ELSE None

\* dict.get(k, default)
GetOr(d, k, default) == IF k \in DOMAIN d THEN d[k] ELSE default

\* Python truthiness of a number or None: None, 0 and 0.0 are falsy
Truthy(v) == v # None /\ v # 0

\* a or b
Or(a, b) == IF Truthy(a) THEN a ELSE b

\* mills in a cent: round(x, 2) rounds money to a multiple of this
MillsPerCent == 10

\* fixed-point resolution of a ratio: hundredths
RatioScale == 100

\* fixed-point resolution of a score: the epsilon 1e-6 is one unit
ScoreUnit == 1000000

-----------------------------------------------------------------------------
(* Exact rationals w + n/d, 0 <= n < d *)

Q(w, n, d) == [w |-> w, n |-> n, d |-> d]

QInt(i) == Q(i, 0, 1)

\* i * 0.5
QHalf(i) == Q(i \div 2, i % 2, 2)

\* i * 1.5
QThreeHalves(i) == Q((3 * i) \div 2, (3 * i) % 2, 2)

\* a * b / d for 0 <= a <= d and b >= 0, as <<quotient, remainder>>, by
\* doubling so that no intermediate exceeds 3 * d
RECURSIVE MulDiv(_, _, _)
MulDiv(a, b, d) ==
    IF b = 0 THEN <<0, 0>>
    ELSE LET h == MulDiv(a, b \div 2, d)
             t == 2 * h[2] + a * (b % 2)
         IN  <<2 * h[1] + t \div d, t % d>>

\* x.n/x.d < y.n/y.d: by the numerators over a common denominator,
\* otherwise by the cross products x.n * y.d and y.n * x.d, each taken as
\* quotient and remainder by the larger denominator
FracLess(x, y) ==
    IF x.d = y.d THEN x.n < y.n
    ELSE LET big == IF x.d > y.d THEN x.d ELSE y.d
             l == MulDiv(x.n, y.d, big)
             r == MulDiv(y.n, x.d, big)
         IN  l[1] < r[1] \/ (l[1] = r[1] /\ l[2] < r[2])

QLess(x, y) == x.w < y.w \/ (x.w = y.w /\ FracLess(x, y))

QEq(x, y) == ~QLess(x, y) /\ ~QLess(y, x)

QLeq(x, y) == QLess(x, y) \/ QEq(x, y)

QNeg(x) == IF x.n = 0 THEN Q(-x.w, 0, x.d) ELSE Q(-x.w - 1, x.d - x.n, x.d)

\* Python max(a, b): the first argument unless the second is larger
PyMax(a, b) == IF QLess(a, b) THEN b ELSE a

\* Python min(a, b): the first argument unless the second is smaller
PyMin(a, b) == IF QLess(b, a) THEN b ELSE a

\* (a / d) * b as an exact rational, b of either sign
QMulDiv(a, b, d) ==
    IF b >= 0 THEN LET m == MulDiv(a, b, d) IN Q(m[1], m[2], d)
    ELSE LET m == MulDiv(a, -b, d) IN QNeg(Q(m[1], m[2], d))

\* round(x, 2) of a money value x in mills: the cents it can come out as.
\* One outcome, the nearest cent, unless x is exactly half way.
Round2(x) ==
    LET c == x.w \div MillsPerCent
        m == x.w % MillsPerCent
    IN  IF 2 * m < MillsPerCent THEN {c}
        ELSE IF 2 * m = MillsPerCent /\ x.n = 0 THEN {c, c + 1}
        ELSE {c + 1}

-----------------------------------------------------------------------------
(* _suggest_reallocation *)

RECURSIVE SumSeq(_)
SumSeq(s) == IF s = <<>> THEN 0 ELSE Head(s) + SumSeq(Tail(s))

\* every way to pick one element from each set of a sequence of sets
RECURSIVE SeqProduct(_)
SeqProduct(sets) ==
    IF sets = <<>> THEN {<<>>}
    ELSE {<<h>> \o t : h \in Head(sets), t \in SeqProduct(Tail(sets))}

\* ch.get("channel") or ch.get("retailer_id") or ch.get("retailer_name")
ChKey(ch) == Or(Get(ch, "channel"), Or(Get(ch, "retailer_id"), Get(ch, "retailer_name")))

\* variant of WeightedScore with the two weights exchanged
WeightedScoreSwapped(roas, conv) ==
    (roas * 3 * (ScoreUnit \div RatioScale)) \div 10
    + (conv * 7 * (ScoreUnit \div RatioScale)) \div 10

\* roas * 0.7 + conv * 0.3, in score units, for ratios in hundredths
WeightedScore(roas, conv) ==
    (roas * 7 * (ScoreUnit \div RatioScale)) \div 10
    + (conv * 3 * (ScoreUnit \div RatioScale)) \div 10

\* score *= 0.5
Penalised(score) == score \div 2

\* variant of RowScore that never applies the min_roas penalty
RowScoreNoPenalty(ch, min_roas) ==
    LET roas == Or(Get(ch, "roas"), 0)
        conv == Or(Get(ch, "conversion_rate"), 0)
        score == WeightedScore(roas, conv)
    IN  (IF score > 0 THEN score ELSE 0) + 1

\* the value the first loop stores in scores[key] for row ch
RowScore(ch, min_roas) ==
    LET roas == Or(Get(ch, "roas"), 0)
        conv == Or(Get(ch, "conversion_rate"), 0)
        score == WeightedScore(roas, conv)
        score2 == IF Truthy(min_roas) /\ roas < min_roas THEN Penalised(score) ELSE score
    IN  (IF score2 > 0 THEN score2 ELSE 0) + 1

\* the scores dict after the first loop: a later row with the same key
\* overwrites an earlier one
Scores(rows, min_roas) ==
    [k \in {ChKey(rows[i]) : i \in 1..Len(rows)} |->
        LET last == CHOOSE i \in 1..Len(rows) :
                        /\ ChKey(rows[i]) = k
                        /\ \A j \in 1..Len(rows) : ChKey(rows[j]) = k => j <= i
        IN  RowScore(rows[last], min_roas)]

\* sum(scores.values()) or 1.0
TotalScore(scores) ==
    LET RECURSIVE SumOver(_)
        SumOver(ks) == IF ks = {} THEN 0
                       ELSE LET k == CHOOSE x \in ks : TRUE
                            IN  scores[k] + SumOver(ks \ {k})
    IN  Or(SumOver(DOMAIN scores), ScoreUnit)

\* sum(ch.get("ad_spend", 0.0) for ch in channels_summary)
CurrentTotal(rows) == SumSeq([i \in 1..Len(rows) |-> GetOr(rows[i], "ad_spend", 0)])

\* variant of TargetTotal that only ever raises the total, never lowers it
TargetTotalUncapped(current_total, max_spend) ==
    IF Truthy(max_spend) /\ max_spend > current_total THEN max_spend ELSE current_total

\* target_total, lines 118-120
TargetTotal(current_total, max_spend) ==
    LET t == IF ~Truthy(max_spend) THEN current_total
             ELSE IF max_spend < current_total THEN max_spend ELSE current_total
    IN  IF Truthy(max_spend) /\ max_spend > current_total THEN max_spend ELSE t

\* (sc / total_score) * target_total for row ch
RawShare(ch, scores, total_score, target_total) ==
    QMulDiv(GetOr(scores, ChKey(ch), 1), target_total, total_score)

\* variant of Clamp that applies the upper bound only
ClampNoFloor(cur, s) ==
    LET upper == IF cur > 0 THEN QThreeHalves(cur) ELSE s
    IN  PyMin(s, upper)

\* max(lower, min(s, upper)) for a row whose current spend is cur
Clamp(cur, s) ==
    LET lower == QHalf(cur)
        upper == IF cur > 0 THEN QThreeHalves(cur) ELSE s
    IN  PyMax(lower, PyMin(s, upper))

\* the locals of _suggest_reallocation once both loops have run
Locals(rows, c) ==
    LET min_roas == Get(c, "min_roas")
        max_spend == Get(c, "max_spend")
        scores == Scores(rows, min_roas)
        total_score == TotalScore(scores)
        current_total == CurrentTotal(rows)
        target_total == TargetTotal(current_total, max_spend)
        raw == [i \in 1..Len(rows) |-> RawShare(rows[i], scores, total_score, target_total)]
    IN  [scores |-> scores,
         total_score |-> total_score,
         current_total |-> current_total,
         target_total |-> target_total,
         raw |-> raw,
         s |-> [i \in 1..Len(rows) |-> Clamp(GetOr(rows[i], "ad_spend", 0), raw[i])]]

\* the dicts row i can be appended as: current and suggested in cents
Suggestions(ch, s) ==
    {[channel |-> ChKey(ch),
      current |-> cur,
      suggested |-> sug,
      reason |-> [roas |-> Get(ch, "roas"), conv_rate |-> Get(ch, "conversion_rate")]] :
        cur \in Round2(QInt(GetOr(ch, "ad_spend", 0))), sug \in Round2(s)}

\* the lists _suggest_reallocation(rows, constraints=c) can return
SuggestReallocation(rows, c) ==
    LET l == Locals(rows, c)
    IN  SeqProduct([i \in 1..Len(rows) |-> Suggestions(rows[i], l.s[i])])

NoLocals == [scores |-> <<>>, total_score |-> 0, current_total |-> 0,
             target_total |-> 0, raw |-> <<>>, s |-> <<>>]

-----------------------------------------------------------------------------
(* Strings and dates of a request *)

\* Python None where the value is a string (a collection name, a date string)
NoneS == "<None>"

\* not s, for a string or None
FalsyS(s) == s = NoneS \/ s = ""

\* a datetime: the day, the second of the day, the microsecond
DateTime(day, sec, us) == [day |-> day, sec |-> sec, us |-> us]

\* None where the value is a datetime
NoDate == <<>>

DateLeq(a, b) ==
    \/ a.day < b.day
    \/ a.day = b.day /\ a.sec < b.sec
    \/ a.day = b.day /\ a.sec = b.sec /\ a.us <= b.us

\* _parse_iso on the date strings of the model: a calendar date, a date with a
\* time of day, and text that no format and not fromisoformat accepts
ParseIso(s) ==
    IF FalsyS(s) THEN NoDate
    ELSE CASE s = "2024-01-01" -> DateTime(1, 0, 0)
           [] s = "2024-01-02" -> DateTime(2, 0, 0)
           [] s = "2024-01-01T12:00:00" -> DateTime(1, 43200, 0)
           [] OTHER -> NoDate

\* dt_to.replace(hour=23, minute=59, second=59, microsecond=999999)
EndOfDay(dt) == DateTime(dt.day, 86399, 999999)

-----------------------------------------------------------------------------
(* The filter query_data builds, lines 148-195 *)

\* ch.isdigit()
IsDigit(ch) == ch \in {"2", "16"}

\* int(ch)
IntOf(ch) == CASE ch = "2" -> 2 [] ch = "16" -> 16

\* ch.lower()
Lower(ch) ==
    CASE ch = "Amazon" -> "amazon"
      [] ch = "Walmart" -> "walmart"
      [] ch = "Kroger" -> "kroger"
      [] ch = "Meijer" -> "meijer"
      [] OTHER -> ch

\* channel_mapping, lines 180-185: per name, its retailer ids (the int
\* entries) and its name patterns (the str entries), each in list order
ChannelMapping ==
    [amazon |-> [ids |-> <<2, 33>>, names |-> <<"amazon", "Amazon">>],
     walmart |-> [ids |-> <<16, 21>>, names |-> <<"walmart", "Walmart">>],
     kroger |-> [ids |-> <<32>>, names |-> <<"kroger", "Kroger">>],
     meijer |-> [ids |-> <<21>>, names |-> <<"meijer", "Meijer">>]]

Regex(field, pattern) == [field |-> field, op |-> "regex_i", pattern |-> pattern]

EqStr(field, value) == [field |-> field, op |-> "eq_str", text |-> value]

EqInt(field, value) == [field |-> field, op |-> "eq_int", number |-> value]

\* the conditions one channel token adds, lines 166-193
ConditionsOf(ch) ==
    <<Regex("channel", ch), Regex("source", ch), Regex("retailer_name", ch),
      EqStr("retailer_id", ch)>>
    \o (IF IsDigit(ch) THEN <<EqInt("retailer_id", IntOf(ch))>> ELSE <<>>)
    \o (IF Lower(ch) \in DOMAIN ChannelMapping
        THEN LET mapped == ChannelMapping[Lower(ch)]
             IN  [i \in 1..Len(mapped.ids) |-> EqInt("retailer_id", mapped.ids[i])]
                 \o [i \in 1..Len(mapped.names) |-> Regex("retailer_name", mapped.names[i])]
        ELSE <<>>)

RECURSIVE ChannelConditions(_)
ChannelConditions(channels) ==
    IF channels = <<>> THEN <<>>
    ELSE ConditionsOf(Head(channels)) \o ChannelConditions(Tail(channels))

\* q, the filter: a dict with "date" when a bound parsed and "$or" when
\* channels were given
BuildFilter(payload) ==
    LET from_date == IF FalsyS(payload.from_date) THEN NoneS ELSE payload.from_date
        to_date == IF FalsyS(payload.to_date) THEN NoneS ELSE payload.to_date
        dt_from == ParseIso(from_date)
        dt_to == ParseIso(to_date)
        bounds == [k \in (IF dt_from # NoDate THEN {"$gte"} ELSE {})
                         \cup (IF dt_to # NoDate THEN {"$lte"} ELSE {}) |->
                      IF k = "$gte" THEN dt_from ELSE EndOfDay(dt_to)]
        has_date == dt_from # NoDate \/ dt_to # NoDate
        has_or == payload.channels # <<>>
    IN  [k \in (IF has_date THEN {"date"} ELSE {}) \cup (IF has_or THEN {"$or"} ELSE {}) |->
            IF k = "date" THEN bounds ELSE ChannelConditions(payload.channels)]

-----------------------------------------------------------------------------
(* The record store: MongoDB's $match, $group, $project, $sort and $limit  *)

\* whether text matches {"$regex": pattern, "$options": "i"}: pattern occurs
\* in it, letter case ignored. The retailer names of the model's documents.
RegexMatchesI(pattern, text) ==
    <<Lower(pattern), text>> \in
        {<<"amazon", "Amazon">>, <<"maz", "Amazon">>, <<"walmart", "Walmart">>}

\* the string-valued fields of a document (retailer_id is stored as a number)
StringFields == {"channel", "source", "retailer_name"}

\* one condition of "$or" on one document
ConditionHolds(cond, doc) ==
    /\ cond.field \in DOMAIN doc
    /\ CASE cond.op = "regex_i" ->
                cond.field \in StringFields /\ RegexMatchesI(cond.pattern, doc[cond.field])
         [] cond.op = "eq_str" ->
                cond.field \in StringFields /\ doc[cond.field] = cond.text
         [] cond.op = "eq_int" ->
                cond.field \notin StringFields /\ doc[cond.field] = cond.number

\* $match
Matches(doc, q) ==
    /\ "date" \in DOMAIN q =>
          /\ "date" \in DOMAIN doc
          /\ "$gte" \in DOMAIN q.date => DateLeq(q.date["$gte"], doc.date)
          /\ "$lte" \in DOMAIN q.date => DateLeq(doc.date, q.date["$lte"])
    /\ "$or" \in DOMAIN q =>
          \E i \in 1..Len(q["$or"]) : ConditionHolds(q["$or"][i], doc)

\* {"$sum": {"$ifNull": ["$m", 0]}} over the documents of a group
RECURSIVE SumIfNull(_, _)
SumIfNull(docs, m) ==
    IF docs = {} THEN 0
    ELSE LET d == CHOOSE x \in docs : TRUE
         IN  (IF Get(d, m) = None THEN 0 ELSE d[m]) + SumIfNull(docs \ {d}, m)

\* $divide, to the resolution of a ratio
Divide(a, b) == (a * RatioScale) \div b

\* {"$cond": [{"$gt": ["$den", 0]}, {"$divide": ["$num", "$den"]}, None]}
CondDivide(num, den) == IF den > 0 THEN Divide(num, den) ELSE None

\* the derived ratios the $project stage adds for a metric list, lines 80-87:
\* name -> <<numerator metric, denominator metric>>
RatioStage(metrics) ==
    [k \in (IF "ad_sales" \in metrics /\ "ad_spend" \in metrics THEN {"roas"} ELSE {})
       \cup (IF "clicks" \in metrics /\ "impressions" \in metrics THEN {"ctr"} ELSE {})
       \cup (IF "ad_spend" \in metrics /\ "clicks" \in metrics THEN {"cpc"} ELSE {})
       \cup (IF "orders" \in metrics /\ "clicks" \in metrics THEN {"conversion_rate"} ELSE {}) |->
        CASE k = "roas" -> <<"ad_sales", "ad_spend">>
          [] k = "ctr" -> <<"clicks", "impressions">>
          [] k = "cpc" -> <<"ad_spend", "clicks">>
          [] k = "conversion_rate" -> <<"orders", "clicks">>]

\* variant of FloatOrNone that turns a null ratio into 0.0
FloatOrZero(v) == IF v # None THEN v ELSE 0

\* float(v) if v is not None else None
FloatOrNone(v) == IF v # None THEN v ELSE None

\* the row of the group with key k: $group, $project, then the type
\* conversion of lines 95-101 (float() of a summed metric leaves its value)
GroupRow(docs, group_by, metrics, k) ==
    LET members == {d \in docs : Get(d, group_by) = k}
        ratios == RatioStage(metrics)
    IN  [f \in {"_id", group_by} \cup metrics \cup DOMAIN ratios |->
            IF f \in {"_id", group_by} THEN k
            ELSE IF f \in metrics THEN SumIfNull(members, f)
            ELSE FloatOrNone(CondDivide(SumIfNull(members, ratios[f][1]),
                                        SumIfNull(members, ratios[f][2])))]

\* the orders a set of rows can come back in: descending by sort_by when it
\* is given (rows that tie in any order; a row without the field sorts as
\* null, below every number), any order otherwise
Orderings(rows, sort_by) ==
    {s \in [1..Cardinality(rows) -> rows] :
        /\ \A i, j \in DOMAIN s : i # j => s[i] # s[j]
        /\ \A i, j \in DOMAIN s :
              (~FalsyS(sort_by) /\ i < j) => Get(s[i], sort_by) >= Get(s[j], sort_by)}

\* $limit
Limit(s, top_n) == IF top_n < Len(s) THEN SubSeq(s, 1, top_n) ELSE s

\* the $sort and $limit stages, each appended only when its argument is truthy
SortAndLimit(rows, top_n, sort_by) ==
    {IF Truthy(top_n) THEN Limit(s, top_n) ELSE s : s \in Orderings(rows, sort_by)}

\* col.aggregate(pipeline) fails: the store is down (fault), or it rejects a
\* $limit that is not positive
AggregateFails(top_n, fault) == fault \/ (Truthy(top_n) /\ top_n < 0)

\* the lists _aggregate_generic can return when the store answers
AggregateGeneric(docs, filter_q, group_by, metrics, top_n, sort_by) ==
    LET matched == {d \in docs : filter_q = <<>> \/ Matches(d, filter_q)}
        rows == {GroupRow(matched, group_by, metrics, k) :
                    k \in {Get(d, group_by) : d \in matched}}
    IN  SortAndLimit(rows, top_n, sort_by)

-----------------------------------------------------------------------------
(* query_data *)

\* COLLECTIONS, lines 23-32
Collections ==
    {"retailer_daily_spend", "retailer_keywords_daily", "retailer_page_type_daily",
     "retailer_product_daily", "budget", "brand", "retailer", "campaign"}

\* _get_collection: the collection's name, or the HTTPException it raises
GetCollection(col_name) ==
    IF FalsyS(col_name) THEN [raised |-> FALSE, col |-> "retailer_daily_spend"]
    ELSE IF col_name \notin Collections
         THEN [raised |-> TRUE, status_code |-> 400, detail |-> "Unknown collection"]
         ELSE [raised |-> FALSE, col |-> col_name]

\* group_by for a collection name, lines 198-209
GroupBy(collection) ==
    CASE collection = "retailer_keywords_daily" -> "keywords"
      [] collection = "retailer_page_type_daily" -> "page_type"
      [] collection = "retailer_product_daily" -> "product_id"
      [] OTHER -> "retailer_id"

\* metrics for a collection name, lines 198-209: the same list in every branch
Metrics(collection) == {"impressions", "clicks", "ad_spend", "ad_sales", "ad_units"}

\* payload.constraints or {}
ConstraintsOf(payload) == payload.constraints

\* the response of the except clause: HTTPException(500, str(e)), whatever
\* was raised, the HTTPException of _get_collection included
ServerError(detail) == [status |-> 500, detail |-> detail]

\* the body query_data returns, lines 216-232
Body(payload, q, summary, sugg) ==
    [status |-> 200,
     metadata |-> [query |-> payload.query,
                   kpi |-> payload.kpi,
                   time_range |-> [from |-> IF FalsyS(payload.from_date) THEN NoneS ELSE payload.from_date,
                                   to |-> IF FalsyS(payload.to_date) THEN NoneS ELSE payload.to_date],
                   collection |-> payload.collection,
                   total_records_found |-> Len(summary),
                   filters_applied |-> q],
     summary |-> summary,
     suggested_reallocation |-> sugg,
     explainability |-> "Heuristic proportional allocation using ROAS and conversion rate (weights: ROAS 0.7, conv 0.3). Bounds: +/-50% per channel.",
     confidence |-> 75]

\* POST /mcp/query-data with the given payload; fault: the store fails the
\* aggregate call
QueryData(payload, fault) ==
    LET got == GetCollection(payload.collection)
        q == BuildFilter(payload)
    IN  /\ pc = "idle"
        /\ request' = payload
        /\ pc' = "responded"
        /\ UNCHANGED db
        /\ IF got.raised
           THEN /\ response' = ServerError(got.detail)
                /\ UNCHANGED <<channels_summary, constraints, locals, suggested>>
           ELSE IF AggregateFails(payload.top_n_campaigns, fault)
           THEN /\ response' = ServerError("aggregate failed")
                /\ UNCHANGED <<channels_summary, constraints, locals, suggested>>
           ELSE /\ channels_summary' \in
                       AggregateGeneric({d \in db : d.col = got.col}, q,
                                        GroupBy(payload.collection),
                                        Metrics(payload.collection),
                                        payload.top_n_campaigns, "ad_sales")
                /\ constraints' = ConstraintsOf(payload)
                /\ locals' = Locals(channels_summary', constraints')
                /\ suggested' \in SuggestReallocation(channels_summary', constraints')
                /\ response' = Body(payload, q, channels_summary', suggested')

-----------------------------------------------------------------------------
(* The reallocation engine on its own: every list of up to MaxRows rows of *)
(* RowSet under every constraints dict of ConstraintSet.                   *)

MaxRows == 3

\* a dict holding the keys whose value is not None
Dict(fields) == [k \in {x \in DOMAIN fields : fields[x] # None} |-> fields[k]]

\* Rows as the engine can be handed them: the three rows of the worked
\* example (100, 4.0, 0.1), (50, 1.0, 0.05), (0, 0.0, 0.0); rows whose spend is
\* an odd number of cents or below a cent; rows without channel, retailer_id
\* or retailer_name (grouped by keyword); a row of retailer 0; a row named by
\* channel and one by retailer_name; a row whose roas is null.
RowSet ==
    { Dict([retailer_id |-> 1, ad_spend |-> 100000, roas |-> 400, conversion_rate |-> 10]),
      Dict([retailer_id |-> 2, ad_spend |-> 50000, roas |-> 100, conversion_rate |-> 5]),
      Dict([retailer_id |-> 3, ad_spend |-> 0, roas |-> 0, conversion_rate |-> 0]),
      Dict([retailer_id |-> 4, ad_spend |-> 90, roas |-> None, conversion_rate |-> None]),
      Dict([channel |-> 5, ad_spend |-> 50, roas |-> 400, conversion_rate |-> 10]),
      Dict([retailer_id |-> 0, retailer_name |-> 6, ad_spend |-> 4, roas |-> 150, conversion_rate |-> 20]),
      Dict([keywords |-> 7, ad_spend |-> 10000, roas |-> 150, conversion_rate |-> None]),
      Dict([keywords |-> 8, ad_spend |-> 0, roas |-> None, conversion_rate |-> None]),
      Dict([retailer_id |-> 0, ad_spend |-> 20000, roas |-> 10, conversion_rate |-> None]) }

RECURSIVE SeqsUpTo(_, _)
SeqsUpTo(S, n) ==
    IF n = 0 THEN {<<>>}
    ELSE LET shorter == SeqsUpTo(S, n - 1)
         IN  shorter \cup {Append(t, x) : t \in shorter, x \in S}

\* min_roas: missing, 0 and 2.0; max_spend: missing, 0, negative, 1.00,
\* 150.00 and 400.00
ConstraintSet ==
    {Dict([min_roas |-> mr, max_spend |-> ms]) :
        mr \in {None, 0, 200}, ms \in {None, 0, -5000, 1000, 150000, 400000}}

InitRealloc ==
    /\ db = {}
    /\ request = <<>>
    /\ response = <<>>
    /\ channels_summary \in SeqsUpTo(RowSet, MaxRows)
    /\ constraints \in ConstraintSet
    /\ locals = NoLocals
    /\ suggested = <<>>
    /\ pc = "called"

\* one call of _suggest_reallocation(channels_summary, constraints=constraints)
CallSuggestReallocation ==
    /\ pc = "called"
    /\ locals' = Locals(channels_summary, constraints)
    /\ suggested' \in SuggestReallocation(channels_summary, constraints)
    /\ pc' = "returned"
    /\ UNCHANGED <<db, request, response, channels_summary, constraints>>

NextRealloc == CallSuggestReallocation

SpecRealloc == InitRealloc /\ [][NextRealloc]_vars

-----------------------------------------------------------------------------
(* The service: a store of up to MaxRecords documents of DocSet, and every  *)
(* request of PayloadSet.                                                  *)

MaxRecords == 3

\* one day of one retailer (or keyword, or page type), with the fields given
Doc(id, col, day, sec, fields) ==
    [k \in {"_id", "col", "date"} \cup DOMAIN fields |->
        CASE k = "_id" -> id
          [] k = "col" -> col
          [] k = "date" -> DateTime(day, sec, 0)
          [] OTHER -> fields[k]]

\* Documents: money in mills, counts as they are. Retailer 2 on two days
\* (one of them without clicks and units), a retailer with all-zero metrics,
\* retailer 0, keyword and page-type documents. Two carry an orders count.
DocSet ==
    { Doc(1, "retailer_daily_spend", 1, 64800,
          [retailer_id |-> 2, retailer_name |-> "Amazon", impressions |-> 40, clicks |-> 10,
           ad_spend |-> 20000, ad_sales |-> 60000, ad_units |-> 3, orders |-> 2]),
      Doc(2, "retailer_daily_spend", 2, 0,
          [retailer_id |-> 2, impressions |-> 20, ad_spend |-> 90, ad_sales |-> 0]),
      Doc(3, "retailer_daily_spend", 2, 0,
          [retailer_id |-> 16, impressions |-> 0, clicks |-> 0,
           ad_spend |-> 0, ad_sales |-> 0, ad_units |-> 0]),
      Doc(4, "retailer_daily_spend", 1, 0,
          [retailer_id |-> 0, impressions |-> 16, clicks |-> 4,
           ad_spend |-> 50000, ad_sales |-> 60000, ad_units |-> 1, orders |-> 3]),
      Doc(5, "retailer_keywords_daily", 1, 0,
          [retailer_id |-> 2, keywords |-> 7, impressions |-> 30, clicks |-> 6,
           ad_spend |-> 10000, ad_sales |-> 15000, ad_units |-> 2]),
      Doc(6, "retailer_keywords_daily", 2, 0,
          [retailer_id |-> 2, keywords |-> 8, impressions |-> 10, clicks |-> 0,
           ad_spend |-> 4000, ad_sales |-> 2000, ad_units |-> 0]),
      Doc(7, "retailer_page_type_daily", 2, 0,
          [retailer_id |-> 16, page_type |-> 9, impressions |-> 50, clicks |-> 5,
           ad_spend |-> 1000, ad_sales |-> 0, ad_units |-> 0]) }

RECURSIVE SubsetsUpTo(_, _)
SubsetsUpTo(S, n) ==
    IF n = 0 THEN {{}}
    ELSE LET smaller == SubsetsUpTo(S, n - 1)
         IN  smaller \cup {t \cup {x} : t \in smaller, x \in S}

PayloadSet ==
    {[query |-> "q", kpi |-> "ROAS", from_date |-> f, to_date |-> t, channels |-> chs,
      constraints |-> c, top_n_campaigns |-> n, collection |-> col] :
        f \in {NoneS, "2024-01-02", "not-a-date"},
        t \in {NoneS, "2024-01-01T12:00:00"},
        chs \in {<<>>, <<"amazon">>, <<"16">>},
        c \in {<<>>, [max_spend |-> 1000], [min_roas |-> 200, max_spend |-> 0]},
        n \in {None, -1, 0, 1, 2},
        col \in {NoneS, "retailer_daily_spend", "retailer_keywords_daily",
                 "retailer_page_type_daily", "orders"}}

Init ==
    /\ db \in SubsetsUpTo(DocSet, MaxRecords)
    /\ request = <<>>
    /\ response = <<>>
    /\ channels_summary = <<>>
    /\ constraints = <<>>
    /\ locals = NoLocals
    /\ suggested = <<>>
    /\ pc = "idle"

HandleQueryData == \E payload \in PayloadSet, fault \in BOOLEAN : QueryData(payload, fault)

\* the response is sent and nothing of the request is kept: the next request
\* finds the service as the first one did
Return ==
    /\ pc = "responded"
    /\ pc' = "idle"
    /\ request' = <<>>
    /\ response' = <<>>
    /\ channels_summary' = <<>>
    /\ constraints' = <<>>
    /\ locals' = NoLocals
    /\ suggested' = <<>>
    /\ UNCHANGED db

Next == HandleQueryData \/ Return

Spec == Init /\ [][Next]_vars

-----------------------------------------------------------------------------
(* The aggregator on its own: _aggregate_generic on a store of up to        *)
(* MaxRecords documents, for every argument list of ArgSet.                 *)

\* the filters of three requests: none, a start date, a channel
FilterSet ==
    {BuildFilter([from_date |-> f, to_date |-> NoneS, channels |-> chs]) :
        <<f, chs>> \in {<<NoneS, <<>> >>, <<"2024-01-02", <<>> >>, <<NoneS, <<"amazon">> >>}}

ArgSet ==
    {[col |-> col, filter_q |-> q, group_by |-> g, metrics |-> ms, top_n |-> n, sort_by |-> srt] :
        col \in {"retailer_daily_spend", "retailer_keywords_daily"},
        q \in FilterSet,
        g \in {"retailer_id", "keywords"},
        ms \in {{"impressions", "clicks", "ad_spend", "ad_sales", "ad_units"},
                {"impressions", "clicks", "ad_spend", "ad_sales", "orders"},
                {"clicks", "orders"},
                {"ad_sales", "impressions"}},
        n \in {None, -1, 0, 1, 2},
        srt \in {NoneS, "ad_sales", "clicks"}}

InitAggregate ==
    /\ db \in SubsetsUpTo(DocSet, MaxRecords)
    /\ request \in ArgSet
    /\ response = <<>>
    /\ channels_summary = <<>>
    /\ constraints = <<>>
    /\ locals = NoLocals
    /\ suggested = <<>>
    /\ pc = "aggregating"

\* one call of _aggregate_generic with the arguments in request: it returns
\* a list (kept in channels_summary) or col.aggregate raises
CallAggregateGeneric ==
    /\ pc = "aggregating"
    /\ \E fault \in BOOLEAN :
          IF AggregateFails(request.top_n, fault)
          THEN /\ pc' = "raised"
               /\ UNCHANGED channels_summary
          ELSE /\ pc' = "aggregated"
               /\ channels_summary' \in
                      AggregateGeneric({d \in db : d.col = request.col}, request.filter_q,
                                       request.group_by, request.metrics,
                                       request.top_n, request.sort_by)
    /\ UNCHANGED <<db, request, response, constraints, locals, suggested>>

NextAggregate == CallAggregateGeneric

SpecAggregate == InitAggregate /\ [][NextAggregate]_vars

-----------------------------------------------------------------------------
(* The claims *)

\* row i's current spend, ch.get("ad_spend", 0.0)
Cur(i) == GetOr(channels_summary[i], "ad_spend", 0)

Rows == 1..Len(channels_summary)

\* x is within half a cent of c cents
WithinHalfCent(c, x) ==
    /\ QLeq(QInt(c * MillsPerCent - MillsPerCent \div 2), x)
    /\ QLeq(x, QInt(c * MillsPerCent + MillsPerCent \div 2))

\* C1 as stated: every emitted suggestion whose current spend is positive has
\* 0.5 x current <= suggested <= 1.5 x current.
C1_Original ==
    pc = "returned" =>
        \A i \in 1..Len(suggested) :
            suggested[i].current > 0 =>
                /\ suggested[i].current <= 2 * suggested[i].suggested
                /\ 2 * suggested[i].suggested <= 3 * suggested[i].current

\* C1 amended: for every row whose current spend is positive the suggested
\* spend before it is rounded to two decimals lies in
\* [0.5 x current, 1.5 x current], and the emitted suggested spend is that
\* value rounded to a nearest cent.
C1_Amended ==
    pc = "returned" =>
        /\ Len(suggested) = Len(channels_summary)
        /\ \A i \in Rows :
              Cur(i) > 0 =>
                  /\ QLeq(QHalf(Cur(i)), locals.s[i])
                  /\ QLeq(locals.s[i], QThreeHalves(Cur(i)))
                  /\ WithinHalfCent(suggested[i].suggested, locals.s[i])

\* a call where one row's share was raised to its floor and another's was
\* cut to its ceiling
C1_Witness ==
    /\ pc = "returned"
    /\ \E i, j \in Rows :
          /\ Cur(i) > 0 /\ QLess(locals.raw[i], QHalf(Cur(i)))
          /\ Cur(j) > 0 /\ QLess(QThreeHalves(Cur(j)), locals.raw[j])

Smaller(a, b) == IF a < b THEN a ELSE b

\* C2: target_total is current_total (the sum of the rows' ad_spend) when no
\* max_spend is given, and when one is given it is min(current_total,
\* max_spend), raised to max_spend when max_spend exceeds current_total.
C2_Claim ==
    pc = "returned" =>
        LET current_total == SumSeq([i \in Rows |-> Cur(i)])
        IN  locals.target_total =
                IF "max_spend" \notin DOMAIN constraints THEN current_total
                ELSE IF constraints.max_spend > current_total THEN constraints.max_spend
                ELSE Smaller(current_total, constraints.max_spend)

\* the metrics a derived ratio is the quotient of, as the data model names
\* them: numerator, denominator
RatioOf(k) ==
    CASE k = "roas" -> <<"ad_sales", "ad_spend">>
      [] k = "ctr" -> <<"clicks", "impressions">>
      [] k = "cpc" -> <<"ad_spend", "clicks">>
      [] k = "conversion_rate" -> <<"orders", "clicks">>

\* v is the quotient num / den to the resolution of a ratio
IsQuotient(v, num, den) ==
    /\ v # None
    /\ v >= 0
    /\ v * den <= num * RatioScale
    /\ num * RatioScale < (v + 1) * den

\* C3: every derived ratio a returned row carries is null exactly when its
\* denominator metric sums to zero, and otherwise is the non-negative
\* quotient of the two summed metrics; it is never turned into zero.
C3_Ratios ==
    pc = "aggregated" =>
        \A i \in Rows :
            \A k \in {"roas", "ctr", "cpc", "conversion_rate"} \cap DOMAIN channels_summary[i] :
                LET r == channels_summary[i]
                    num == r[RatioOf(k)[1]]
                    den == r[RatioOf(k)[2]]
                IN  IF den = 0 THEN r[k] = None ELSE IsQuotient(r[k], num, den)

\* a returned list with a null roas, a null conversion_rate and a
\* conversion_rate that is a positive quotient
C3_Witness ==
    /\ pc = "aggregated"
    /\ \E i \in Rows : Get(channels_summary[i], "roas") = None
                       /\ "roas" \in DOMAIN channels_summary[i]
    /\ \E i \in Rows : "conversion_rate" \in DOMAIN channels_summary[i]
                       /\ channels_summary[i].conversion_rate = None
    /\ \E i \in Rows : "conversion_rate" \in DOMAIN channels_summary[i]
                       /\ channels_summary[i].conversion_rate # None
                       /\ channels_summary[i].conversion_rate > 0

\* C4: every row query_data aggregates carries conversion_rate = summed
\* ad_units / summed clicks (null when clicks sum to zero), and that is the
\* conversion_rate the reallocation score uses.
C4_Claim ==
    (pc = "responded" /\ response.status = 200) =>
        \A i \in 1..Len(response.summary) :
            LET r == response.summary[i]
            IN  /\ "conversion_rate" \in DOMAIN r
                /\ IF r.clicks = 0 THEN r.conversion_rate = None
                   ELSE IsQuotient(r.conversion_rate, r.ad_units, r.clicks)
                /\ response.suggested_reallocation[i].reason.conv_rate = r.conversion_rate

\* C5: a request naming an unknown collection is answered 400, and with no
\* result.
C5_Claim ==
    (pc = "responded" /\ ~FalsyS(request.collection) /\ request.collection \notin Collections) =>
        /\ response.status = 400
        /\ "summary" \notin DOMAIN response

\* the three rows of the worked example
ExampleRows ==
    << Dict([retailer_id |-> 1, ad_spend |-> 100000, roas |-> 400, conversion_rate |-> 10]),
       Dict([retailer_id |-> 2, ad_spend |-> 50000, roas |-> 100, conversion_rate |-> 5]),
       Dict([retailer_id |-> 3, ad_spend |-> 0, roas |-> 0, conversion_rate |-> 0]) >>

ExampleReturned == pc = "returned" /\ channels_summary = ExampleRows /\ constraints = <<>>

\* what the example says of rows 2 and 3 and of target_total: the total is
\* 150, row 2 keeps its raw share of about 30.3, inside [25, 75], and row 3
\* keeps its raw share
ExampleRest ==
    /\ locals.target_total = 150000
    /\ QEq(locals.s[2], locals.raw[2])
    /\ QLess(QInt(30200), locals.raw[2]) /\ QLess(locals.raw[2], QInt(30400))
    /\ QLeq(QHalf(Cur(2)), locals.raw[2]) /\ QLeq(locals.raw[2], QThreeHalves(Cur(2)))
    /\ QEq(locals.s[3], locals.raw[3])
    /\ WithinHalfCent(suggested[3].suggested, locals.raw[3])

\* C6 as stated: on the example, row 1 is suggested 150.00.
C6_Original == ExampleReturned => (suggested[1].suggested = 15000 /\ ExampleRest)

\* C6 amended: on the example, row 1's raw share of about 119.75 lies inside
\* [50, 150], is not clamped, and row 1 is suggested 119.75; the rest is as
\* stated.
C6_Amended ==
    ExampleReturned =>
        /\ suggested[1].suggested = 11975
        /\ QEq(locals.s[1], locals.raw[1])
        /\ ExampleRest

\* the example has been run
C6_Witness == ExampleReturned

\* row i's roas is below a set min_roas
BelowMinRoas(i) ==
    /\ Truthy(Get(constraints, "min_roas"))
    /\ Or(Get(channels_summary[i], "roas"), 0) < constraints.min_roas

\* row i's score before the penalty, the floor and the epsilon
Unpenalised(i) ==
    WeightedScore(Or(Get(channels_summary[i], "roas"), 0),
                  Or(Get(channels_summary[i], "conversion_rate"), 0))

\* no later row has row i's key
LastOfKey(i) == \A j \in Rows : ChKey(channels_summary[j]) = ChKey(channels_summary[i]) => j <= i

\* the scores dict had row i alone been spared the penalty, every other row
\* scored as it was
ScoresSparing(i) ==
    [k \in DOMAIN locals.scores |->
        IF k = ChKey(channels_summary[i]) /\ LastOfKey(i)
        THEN (IF Unpenalised(i) > 0 THEN Unpenalised(i) ELSE 0) + 1
        ELSE locals.scores[k]]

\* row i's raw share had it alone been spared the penalty
ShareSparing(i) ==
    QMulDiv(ScoresSparing(i)[ChKey(channels_summary[i])], locals.target_total,
            TotalScore(ScoresSparing(i)))

\* C7 as stated: a row whose roas is below min_roas has its score halved and,
\* all else equal, receives a strictly smaller share than without the
\* constraint.
C7_Original ==
    pc = "returned" =>
        \A i \in Rows :
            BelowMinRoas(i) =>
                /\ locals.scores[ChKey(channels_summary[i])] = Unpenalised(i) \div 2 + 1
                /\ QLess(locals.raw[i], ShareSparing(i))

\* C7 amended: a row whose roas is below min_roas has its score halved before
\* the floor and the epsilon (the score kept for its key, when no later row
\* has the same key); all else equal its raw share is never larger than
\* without the penalty when target_total >= 0, and strictly smaller when
\* target_total > 0, its unpenalised score is positive, no later row has its
\* key and some row has another key.
C7_Amended ==
    pc = "returned" =>
        \A i \in Rows :
            BelowMinRoas(i) =>
                /\ LastOfKey(i) =>
                      locals.scores[ChKey(channels_summary[i])] = Unpenalised(i) \div 2 + 1
                /\ locals.target_total >= 0 => QLeq(locals.raw[i], ShareSparing(i))
                /\ ( /\ locals.target_total > 0
                     /\ Unpenalised(i) > 0
                     /\ LastOfKey(i)
                     /\ \E j \in Rows : ChKey(channels_summary[j]) # ChKey(channels_summary[i]) )
                   => QLess(locals.raw[i], ShareSparing(i))

\* a call that penalised a row with a positive score next to a row with
\* another key, with money to share
C7_Witness ==
    /\ pc = "returned"
    /\ locals.target_total > 0
    /\ \E i, j \in Rows :
          /\ BelowMinRoas(i) /\ Unpenalised(i) > 0 /\ LastOfKey(i)
          /\ ChKey(channels_summary[j]) # ChKey(channels_summary[i])
          /\ QLess(locals.raw[i], ShareSparing(i))

\* every group of the call's collection and filter, uncapped
AllGroups ==
    LET docs == {d \in db : d.col = request.col /\ (request.filter_q = <<>> \/ Matches(d, request.filter_q))}
    IN  {[key |-> k,
          total |-> IF FalsyS(request.sort_by) \/ request.sort_by \notin request.metrics THEN None
                    ELSE SumIfNull({d \in docs : Get(d, request.group_by) = k}, request.sort_by)] :
            k \in {Get(d, request.group_by) : d \in docs}}

\* C8: _aggregate_generic returns at most cap rows, for every cap a request
\* can carry, 0 included; one row per distinct group key; in descending
\* order of the summed sort metric; and they are the groups with the largest
\* sums.
C8_Claim ==
    pc = "aggregated" =>
        /\ request.top_n # None => Len(channels_summary) <= request.top_n
        /\ \A i, j \in Rows : i # j => channels_summary[i]["_id"] # channels_summary[j]["_id"]
        /\ \A i \in Rows : \E g \in AllGroups : g.key = channels_summary[i]["_id"]
        /\ \A i, j \in Rows :
              (~FalsyS(request.sort_by) /\ i < j) =>
                  Get(channels_summary[i], request.sort_by) >= Get(channels_summary[j], request.sort_by)
        /\ ~FalsyS(request.sort_by) =>
              \A g \in AllGroups :
                  (\A i \in Rows : channels_summary[i]["_id"] # g.key) =>
                      \A i \in Rows : Get(channels_summary[i], request.sort_by) >= g.total

\* the sum of the raw shares, all over the denominator total_score
SumOfRaw ==
    LET whole == SumSeq([i \in Rows |-> locals.raw[i].w])
        parts == SumSeq([i \in Rows |-> locals.raw[i].n])
    IN  Q(whole + parts \div locals.total_score, parts % locals.total_score, locals.total_score)

\* C9: one suggestion per row, each row's raw share being its own score over
\* the sum of all rows' scores, times target_total, so that the raw shares
\* sum to target_total; also for rows of the keyword, page-type and product
\* collections and rows of retailer 0.
C9_Claim ==
    (pc = "responded" /\ response.status = 200) =>
        LET min_roas == Get(constraints, "min_roas")
            own == [i \in Rows |-> RowScore(channels_summary[i], min_roas)]
        IN  /\ Len(suggested) = Len(channels_summary)
            /\ \A i \in Rows :
                  QEq(locals.raw[i], QMulDiv(own[i], locals.target_total, SumSeq(own)))
            /\ Rows # {} => QEq(SumOfRaw, QInt(locals.target_total))

\* the suggested spends add up to at most max_spend (cents against mills)
SumWithin(max_spend) ==
    SumSeq([i \in 1..Len(suggested) |-> suggested[i].suggested]) * MillsPerCent <= max_spend

\* C10 as stated: with a positive max_spend the suggested spends sum to at
\* most max_spend.
C10_Original ==
    (pc = "returned" /\ Truthy(Get(constraints, "max_spend")) /\ Get(constraints, "max_spend") > 0) =>
        SumWithin(constraints.max_spend)

\* C10 amended: with a positive max_spend, target_total is max_spend, no
\* row's raw share exceeds max_spend, and no row's suggested spend exceeds
\* the larger of max_spend and half its current spend (to the nearest cent);
\* the sum is not capped, each row with spend being held at half of it.
C10_Amended ==
    (pc = "returned" /\ Truthy(Get(constraints, "max_spend")) /\ Get(constraints, "max_spend") > 0) =>
        /\ locals.target_total = constraints.max_spend
        /\ \A i \in Rows :
              LET cap == PyMax(QHalf(Cur(i)), QInt(constraints.max_spend))
              IN  /\ QLeq(locals.raw[i], QInt(constraints.max_spend))
                  /\ QLeq(locals.s[i], cap)
                  /\ QLeq(QInt(suggested[i].suggested * MillsPerCent - MillsPerCent \div 2), cap)

\* a call with a positive max_spend below the current total, whose
\* suggestions add up to more than max_spend
C10_Witness ==
    /\ pc = "returned"
    /\ Truthy(Get(constraints, "max_spend"))
    /\ constraints.max_spend > 0
    /\ constraints.max_spend < locals.current_total
    /\ ~SumWithin(constraints.max_spend)

=============================================================================
